---- MODULE Spec2Model ----
(***************************************************************************)
(* A model of littlefish3/lfsmailer.py: the address formatter and parser,  *)
(* the mailer configuration that init() writes, the set-up of the error    *)
(* emails, the request/session enrichment of LfsSmtpHandler.add_details    *)
(* and the rate-limited LfsSmtpHandler.emit, called by one thread and by   *)
(* several and, through the records the module logs itself, from inside    *)
(* init() and from inside its own invocations.                             *)
(*                                                                         *)
(* Python strings that the code takes apart (addresses, display names) are *)
(* sequences of one-character strings.  Other strings are opaque values.   *)
(***************************************************************************)
EXTENDS Integers, Sequences, FiniteSets, TLC

VARIABLES
    \* format_address / parse_address: the inputs, the formatted string, the
    \* parser's result and the position in the round trip
    email_address, name, formatted_address, parsed, apc,
    \* the module's mailer configuration (_host ... _configured), what the
    \* init() call that returned last raised, and the history of init()
    \* calls: how many were made, how many returned without raising, the
    \* arguments of the first, and whether a call was made while another
    \* had not returned
    config, init_result, init_calls, init_ok, first_args, overlapped,
    \* _error_reporting_obscured_fields, the web request and session in
    \* flight, the message add_details returned, and the position
    obscured_fields, request, session, details, dpc,
    \* one LfsSmtpHandler: whether it was created and attached, its
    \* max_sends_per_minute, rate_limiter and level, and whether the
    \* application's handler of the local log is called before it;
    \* the effective level of the module's logger; the clock that
    \* timetool.unix_time() reads; and the history of the emit() invocations:
    \* the readings of those that appended, the number of calls the
    \* application made, of send_text_mail calls and of invocations that
    \* appended and raised before the send, and the last one that returned
    attached, max_sends_per_minute, rate_limiter, clock, level, log_level,
    local_first,
    permitted_at, n_emits, n_dispatched, n_aborted, last,
    \* the handler's re-entrant lock (its owner, 0 when free, and how often
    \* the owner holds it), each thread's stack of init() invocations and,
    \* above these, its stack of emit() invocations
    lock, istack, stack

addrVars == <<email_address, name, formatted_address, parsed, apc>>
cfgVars ==
    <<config, init_result, init_calls, init_ok, first_args, overlapped>>
detVars == <<obscured_fields, request, session, details, dpc>>
hdlVars ==
    <<attached, max_sends_per_minute, rate_limiter, clock, level, log_level,
      local_first>>
histVars == <<permitted_at, n_emits, n_dispatched, n_aborted, last>>
thrVars == <<lock, istack, stack>>
vars == <<addrVars, cfgVars, detVars, hdlVars, histVars, thrVars>>

(***************************************************************************)
(* Bounds of the model.                                                    *)
(***************************************************************************)
MaxAddrLen == 5
MaxNameLen == 2
MaxInitCalls == 2
MaxValues == 2
MaxSends == 2
MaxEmits == 2
MaxCalls == 1
NThreads == 2
MaxThreadEmits == 2
MaxDepth == 4

(***************************************************************************)
(* Sequences over a set, up to a length.                                   *)
(***************************************************************************)
SeqUpTo(S, n) == UNION {[1..k -> S] : k \in 0..n}

(***************************************************************************)
(* Optional values: Python's None, or a value.  None stands where a        *)
(* sequence may stand, NoStr where an opaque string and NoBool where a     *)
(* boolean may.                                                            *)
(***************************************************************************)
None == [some |-> FALSE, val |-> <<>>]
NoStr == [some |-> FALSE, val |-> ""]
NoBool == [some |-> FALSE, val |-> FALSE]
Some(v) == [some |-> TRUE, val |-> v]

(***************************************************************************)
(* Character classes of email_regex_string,                                *)
(*   [a-zA-Z0-9_.+-]+@[a-zA-Z0-9-]+\.[a-zA-Z0-9-.]+                        *)
(* over the characters the model draws from: "a" stands for the letters    *)
(* and digits.                                                             *)
(***************************************************************************)
AlNum == {"a", "b"}
LocalChars == AlNum \cup {"_", ".", "+", "-"}
DomainChars == AlNum \cup {"-"}
TailChars == AlNum \cup {"-", "."}
Newline == "\n"
Whitespace == {" ", Newline}

AllIn(s, S) == \A i \in 1..Len(s) : s[i] \in S

\* email_regex_string matched against the whole of s
EmailPattern(s) ==
    \E i \in 2..Len(s) : \E j \in (i + 2)..(Len(s) - 1) :
        /\ s[i] = "@"
        /\ s[j] = "."
        /\ AllIn(SubSeq(s, 1, i - 1), LocalChars)
        /\ AllIn(SubSeq(s, i + 1, j - 1), DomainChars)
        /\ AllIn(SubSeq(s, j + 1, Len(s)), TailChars)

\* where "$" matches in s: at the end, and before a newline that ends s
DollarEnds(s) ==
    {Len(s)} \cup {e \in {Len(s) - 1} : s # <<>> /\ s[Len(s)] = Newline}

\* email_regex.match(s), the pattern ^...$
EmailMatch(s) == \E e \in DollarEnds(s) : EmailPattern(SubSeq(s, 1, e))

\* formatted_address_regex, ^([^,<]+)<(email)>$ : the position of the "<"
\* that ends group 1 and of the ">" that follows group 2, or 0 and 0 when
\* there is no match
FormattedSplit(s) ==
    LET cands == {c \in (2..Len(s)) \X DollarEnds(s) :
                    /\ s[c[1]] = "<"
                    /\ \A i \in 1..(c[1] - 1) : s[i] \notin {",", "<"}
                    /\ c[2] >= c[1] + 2
                    /\ s[c[2]] = ">"
                    /\ EmailPattern(SubSeq(s, c[1] + 1, c[2] - 1))}
    IN  IF cands = {} THEN <<0, 0>> ELSE CHOOSE c \in cands : TRUE

\* str.strip()
RECURSIVE LStrip(_)
LStrip(s) == IF s # <<>> /\ Head(s) \in Whitespace THEN LStrip(Tail(s)) ELSE s
RECURSIVE RStrip(_)
RStrip(s) ==
    IF s # <<>> /\ s[Len(s)] \in Whitespace
    THEN RStrip(SubSeq(s, 1, Len(s) - 1)) ELSE s
Strip(s) == LStrip(RStrip(s))

\* format_address(email_address, name=None)
format_address(addr, nm) ==
    IF ~nm.some THEN addr
    ELSE nm.val \o <<" ", "<">> \o addr \o <<">">>

\* parse_address without the strip() of line 117
parse_address_unstripped(s) ==
    IF EmailMatch(s)
    THEN [raised |-> "none", address |-> s, name |-> None]
    ELSE LET k == FormattedSplit(s)
         IN  IF k[1] # 0
             THEN [raised |-> "none",
                   address |-> SubSeq(s, k[1] + 1, k[2] - 1),
                   name |-> Some(SubSeq(s, 1, k[1] - 1))]
             ELSE [raised |-> "ValueError", address |-> <<>>, name |-> None]

\* parse_address(formatted_address): the tuple (address, name), or ValueError
parse_address(s) ==
    IF EmailMatch(s)
    THEN [raised |-> "none", address |-> s, name |-> None]
    ELSE LET k == FormattedSplit(s)
         IN  IF k[1] # 0
             THEN [raised |-> "none",
                   address |-> Strip(SubSeq(s, k[1] + 1, k[2] - 1)),
                   name |-> Some(Strip(SubSeq(s, 1, k[1] - 1)))]
             ELSE [raised |-> "ValueError", address |-> <<>>, name |-> None]

(***************************************************************************)
(* The mailer configuration: the module globals of lines 22-30, and init.  *)
(* init() takes no lock and calls out (log.info, line 85) between its      *)
(* guard (lines 76-77) and the assignment of _configured (line 94): it is  *)
(* taken a statement at a time.                                            *)
(***************************************************************************)
Unconfigured ==
    [_host |-> NoStr, _port |-> NoStr, _username |-> NoStr,
     _password |-> NoStr, _use_tls |-> NoBool, _default_email_from |-> NoStr,
     _email_to_override |-> NoStr, _dump_email_body |-> NoBool,
     _configured |-> FALSE]

\* the values init(args) assigns to the globals
Configured(args) ==
    [_host |-> Some(args.smtp_host), _port |-> Some(args.smtp_port),
     _username |-> Some(args.smtp_username),
     _password |-> Some(args.smtp_password),
     _use_tls |-> Some(args.smtp_use_tls),
     _default_email_from |-> args.default_email_from,
     _email_to_override |-> args.email_to_override,
     _dump_email_body |-> Some(args.dump_email_body),
     _configured |-> TRUE]

\* the statements of init() after the guard, in program order: the global
\* each assigns (lines 79-83, 87, 90, 92, 94), and the log.info of line 85
InitSteps ==
    <<"_host", "_port", "_username", "_password", "_use_tls", "log",
      "_default_email_from", "_email_to_override", "_dump_email_body",
      "_configured">>

\* `if _dump_email_body:` (line 159), `if _email_to_override:` (line 172):
\* None, False and the empty string are false
TruthyBool(o) == o.some /\ o.val
TruthyStr(o) == o.some /\ o.val # ""

\* the arguments the application gives init(): nothing optional set; another
\* server with everything set; the body dump and the recipient override
\* switched on; an empty recipient override
PlainArgs ==
    [smtp_host |-> "mail1", smtp_port |-> "25", smtp_username |-> "",
     smtp_password |-> "pw1", smtp_use_tls |-> FALSE,
     default_email_from |-> NoStr, email_to_override |-> NoStr,
     dump_email_body |-> FALSE]
ServerArgs ==
    [smtp_host |-> "mail2", smtp_port |-> "587", smtp_username |-> "user",
     smtp_password |-> "pw2", smtp_use_tls |-> TRUE,
     default_email_from |-> Some("noreply@x"),
     email_to_override |-> Some("dev@x"), dump_email_body |-> TRUE]
DumpArgs ==
    [PlainArgs EXCEPT !.email_to_override = Some("dev@x"),
                      !.dump_email_body = TRUE]
EmptyOverrideArgs == [PlainArgs EXCEPT !.email_to_override = Some("")]
InitArgs == {PlainArgs, ServerArgs, DumpArgs, EmptyOverrideArgs}
NoArgs == PlainArgs

(***************************************************************************)
(* add_details: the request and the session enrichment.                    *)
(*                                                                         *)
(* A message is a sequence of blocks [label, content], the base message    *)
(* first; '%s\nRequest:\n\n...' % msg appends one block to msg.  A block's  *)
(* content is a sequence of tokens.  pprint.pformat and json.dumps are     *)
(* rendered token by token (keys in sorted order, quotes, brackets); the   *)
(* line breaks and indentation they add are left out.                      *)
(***************************************************************************)
FieldNames == {"Password", "password", "user"}
Submitted == {"s1", "s2"}
ValueLists == UNION {[1..k -> Submitted] : k \in 1..MaxValues}
Mask == "******"

\* str.lower() on the field names
Lower(k) == IF k = "Password" THEN "password" ELSE k

\* the order of sorted() on the field names (code point order)
KeyRank(k) == CASE k = "Password" -> 1 [] k = "password" -> 2 [] OTHER -> 3

RECURSIVE SortedKeys(_)
SortedKeys(S) ==
    IF S = {} THEN <<>>
    ELSE LET k == CHOOSE x \in S : \A y \in S : KeyRank(x) <= KeyRank(y)
         IN  <<k>> \o SortedKeys(S \ {k})

\* repr() of a str, and of a list of str
ReprStr(v) == <<"'", v, "'">>
RECURSIVE ReprItems(_)
ReprItems(vs) ==
    IF vs = <<>> THEN <<>>
    ELSE ReprStr(Head(vs))
         \o (IF Len(vs) > 1 THEN <<",">> ELSE <<>>) \o ReprItems(Tail(vs))
ReprList(vs) == <<"[">> \o ReprItems(vs) \o <<"]">>

\* a value of form_dict after the loop of lines 244-248
Scalar(v) == [is_list |-> FALSE, str |-> v, list |-> <<>>]
List(vs) == [is_list |-> TRUE, str |-> "", list |-> vs]
ReprValue(x) == IF x.is_list THEN ReprList(x.list) ELSE ReprStr(x.str)

\* the loop of lines 244-248 with the key compared as submitted
obscure_exact(form, obscured) ==
    [key \in DOMAIN form |->
        IF key \in obscured THEN Scalar(Mask)
        ELSE IF Len(form[key]) = 1 THEN Scalar(form[key][1])
        ELSE List(form[key])]

\* the loop of lines 244-248 over form_dict = dict(request.form)
obscure(form, obscured) ==
    [key \in DOMAIN form |->
        IF Lower(key) \in obscured THEN Scalar(Mask)
        ELSE IF Len(form[key]) = 1 THEN Scalar(form[key][1])
        ELSE List(form[key])]

\* pprint.pformat(form_dict)
RECURSIVE PformatItems(_, _)
PformatItems(d, keys) ==
    IF keys = <<>> THEN <<>>
    ELSE ReprStr(Head(keys)) \o <<":">> \o ReprValue(d[Head(keys)])
         \o (IF Len(keys) > 1 THEN <<",">> ELSE <<>>)
         \o PformatItems(d, Tail(keys))
pformat(d) == <<"{">> \o PformatItems(d, SortedKeys(DOMAIN d)) \o <<"}">>

Block(label, content) == [label |-> label, content |-> content]

NoForm == [key \in {} |-> <<>>]
NoRequest ==
    [some |-> FALSE, url |-> "", method |-> "", endpoint |-> "",
     form |-> NoForm]
Request(form) ==
    [some |-> TRUE, url |-> "http://x/login", method |-> "POST",
     endpoint |-> "login", form |-> form]

\* lines 236-255: the message after the request step.  Outside a request
\* `request.url` raises; with a form to walk and no obscured-field list
\* `key.lower() in None` raises.  `except Exception` leaves msg as it was.
request_details(msg, req, obscured) ==
    IF ~req.some THEN msg
    ELSE IF DOMAIN req.form # {} /\ ~obscured.some THEN msg
    ELSE LET form_dict == IF DOMAIN req.form = {} THEN req.form
                          ELSE obscure(req.form, obscured.val)
         IN  Append(msg, Block("Request",
                 <<"url:", req.url, "method:", req.method,
                   "endpoint:", req.endpoint, "form:">> \o pformat(form_dict)))

\* a session value: a str, a datetime, a UUID or an object json cannot encode
SessionValue(kind, text) == [kind |-> kind, text |-> text]
NoSession == [some |-> FALSE, items |-> <<>>]
Session(items) == [some |-> TRUE, items |-> items]

\* SessionEncoder.default and the encoder of str: isoformat() and str() give
\* text, anything else is a TypeError
Encodable(v) == v.kind \in {"str", "datetime", "UUID"}
RECURSIVE JsonItems(_)
JsonItems(items) ==
    IF items = <<>> THEN <<>>
    ELSE <<"\"", Head(items).text, "\"">>
         \o (IF Len(items) > 1 THEN <<",">> ELSE <<>>)
         \o JsonItems(Tail(items))

\* lines 258-267: the message after the session step
session_details(msg, sess) ==
    IF ~sess.some THEN msg
    ELSE IF \E i \in 1..Len(sess.items) : ~Encodable(sess.items[i]) THEN msg
    ELSE Append(msg, Block("Session",
             <<"{">> \o JsonItems(sess.items) \o <<"}">>))

\* add_details(message)
add_details(message, req, sess, obscured) ==
    session_details(request_details(message, req, obscured), sess)

\* lines 255 and 267: the except clause of a failing step calls
\* traceback.print_exc(), which writes to sys.stderr: on a closed
\* sys.stderr the write raises ValueError, out of add_details
add_details_raises(message, req, sess, obscured, stderr) ==
    IF /\ stderr = "closed"
       /\ \/ request_details(message, req, obscured) = message
          \/ session_details(message, sess) = message
    THEN "ValueError" ELSE "none"

NoFields == [some |-> FALSE, val |-> {}]


Forms == UNION {[D -> ValueLists] : D \in SUBSET FieldNames}
Requests == {NoRequest} \cup {Request(f) : f \in Forms}
Sessions ==
    {NoSession,
     Session(<<SessionValue("str", "bob"),
               SessionValue("datetime", "2020-01-01T00:00:00")>>),
     Session(<<SessionValue("UUID", "1b4e28ba"),
               SessionValue("object", "")>>)}
ObscuredChoices == {{}, {"password"}, {"Password", "user"}}
BaseMessage == <<Block("Message", <<"formatted record">>)>>

(***************************************************************************)
(* LfsSmtpHandler.                                                         *)
(***************************************************************************)
Window == 60

\* the toaddrs argument: a str or a list of str
OneAddress(a) == [is_str |-> TRUE, str |-> a, list |-> <<>>]
AddressList(l) == [is_str |-> FALSE, str |-> "", list |-> l]

\* __init__: a single to-address becomes a one-element list (lines 209-211)
LfsSmtpHandler(fromaddr, toaddrs, subject, max_sends) ==
    [fromaddr |-> fromaddr,
     toaddrs |-> IF toaddrs.is_str THEN <<toaddrs.str>> ELSE toaddrs.list,
     subject |-> subject,
     max_sends_per_minute |-> max_sends,
     rate_limiter |-> <<>>]

\* the handler init_error_emails attaches (line 327), with the limit the
\* model gives it
Handler ==
    LfsSmtpHandler("errors@x", OneAddress("ops@x"), "Error",
                   max_sends_per_minute)

\* lines 280-281: [x for x in self.rate_limiter if x > one_minute_ago]
purge(rl, now) == SelectSeq(rl, LAMBDA x : x > now - Window)

\* line 288: recent_sends < self.max_sends_per_minute
send_allowed(recent_sends, max_sends) == recent_sends < max_sends

\* lines 289-290 without the test of send_email
append_always(rl, send_email, now) == Append(rl, now)

\* lines 289-290: if send_email: self.rate_limiter.append(now)
append_if(rl, send_email, now) == IF send_email THEN Append(rl, now) ELSE rl

\* a log record: record.msg is a str (a sequence of tokens, the prefix
\* "Exception caught: " being one token) or another object
StrRecord(msg) == [is_str |-> TRUE, msg |-> msg]
ObjRecord == [is_str |-> FALSE, msg |-> <<>>]
TagPrefix == "Exception caught: "

\* self.format(record): the default formatter's text around the message
format(record) ==
    <<Block("Message", <<"Message type:", "Location:", "Module:",
                         "Function:", "Time:", "Message:">> \o record.msg)>>

\* error_log_tag_regex.search(record.msg): ^(Exception caught: )?\(([^)]+)\)
\* the last group, or <<>> when there is no match
extract_tag(msg) ==
    LET open == IF msg # <<>> /\ msg[1] = TagPrefix THEN 2 ELSE 1
        closes == {c \in (open + 2)..Len(msg) :
                     /\ msg[c] = ")"
                     /\ \A i \in (open + 1)..(c - 1) : msg[i] # ")"}
    IN  IF Len(msg) >= open /\ msg[open] = "(" /\ closes # {}
        THEN LET c == CHOOSE x \in closes : TRUE
             IN  SubSeq(msg, open + 1, c - 1)
        ELSE <<>>

\* lines 297-302: subject = self.subject + tag
subject_of(subject, msg) ==
    IF extract_tag(msg) = <<>> THEN <<subject>>
    ELSE <<subject, " (">> \o extract_tag(msg) \o <<")">>

NoMail == [recipient_list |-> <<>>, subject |-> <<>>, body |-> <<>>,
           from_address |-> ""]
WarningText ==
    "!! WARNING: Not sending email as too many emails have been sent in the past minute !!"

\* lines 313-316: what emit() raises to its caller and whether it calls
\* self.handleError(record), given what was raised inside the try.
\* RecursionError and ValueError are ordinary exceptions.
Ordinary == {"Exception", "RecursionError", "ValueError"}
handle(error) ==
    IF error \in {"KeyboardInterrupt", "SystemExit"}
    THEN [raised |-> error, handle_errors |-> 0]
    ELSE IF error \in Ordinary
    THEN [raised |-> "none", handle_errors |-> 1]
    ELSE [raised |-> "none", handle_errors |-> 0]

(***************************************************************************)
(* The logging levels, and when a record that the module logs through its  *)
(* own logger `log` (line 20) is passed to the handler: the logger passes  *)
(* on the records at or above its effective level, and the handler, when   *)
(* it is attached to that logger or to one above it, is called for the     *)
(* records at or above its own level.  LfsSmtpHandler(...) leaves the      *)
(* level at NOTSET (line 207); init_error_emails sets WARNING or ERROR     *)
(* (lines 331, 334) before it attaches the handler.                        *)
(***************************************************************************)
NOTSET == 0
DEBUG == 10
INFO == 20
WARNING == 30
ERROR == 40

reaches(lvl, logger_level, handler_level) ==
    lvl >= logger_level /\ lvl >= handler_level

\* max_sends_per_minute=15 (line 192)
DefaultMaxSends == 15

\* init_error_emails(send_error_emails, send_warning_emails, from_address,
\* to_addresses, subject, obscured_fields=...): the obscured-field list it
\* stores (line 323) and, when one of the two flags is set, the handler it
\* creates with the default limit (line 327), the level it gives it (lines
\* 329-334) and that it attaches it (line 339)
init_error_emails(send_error_emails, send_warning_emails, from_address, to_addresses, subject, obscured) ==
    [obscured_fields |-> Some(obscured),
     attach |-> send_error_emails \/ send_warning_emails,
     level |-> IF send_warning_emails THEN WARNING ELSE ERROR,
     handler |-> LfsSmtpHandler(from_address, to_addresses, subject,
                                DefaultMaxSends)]

(***************************************************************************)
(* One invocation of emit(record): its arguments, what the environment     *)
(* does to it, its locals and what it did.  fault.at names the step that   *)
(* the environment makes raise fault.kind, if any ("clock":                *)
(* timetool.unix_time(), line 279; "rate": the comparison of line 288,     *)
(* e.g. a max_sends_per_minute that is no number; "format": self.format;   *)
(* "enrich": something escaping self.add_details; "connect": smtplib.SMTP, *)
(* starttls or login in send_mail, lines 162-170; "deliver": s.sendmail,   *)
(* line 183; "quit": s.quit, line 184, the mail handed over); delta is the *)
(* time that passed when it reads the clock; depth tells how near the      *)
(* interpreter's recursion limit the invocation runs: the application is   *)
(* at depth 1 when it logs far from the limit, and each emit() entered     *)
(* from a logging call of an invocation is one deeper; nested is the       *)
(* environment of the call: the fault and the delta of the invocations     *)
(* that its own logging calls make, the depth from which the stack is      *)
(* nearly exhausted (tight_from) and whether sys.stderr is open or closed. *)
(* Some steps raise on their own: the tag search raises TypeError when     *)
(* record.msg is no str, send_mail raises when _configured is false        *)
(* (lines 151-152), and where the stack is nearly exhausted every call     *)
(* that emit() makes may raise RecursionError (see Tight).                 *)
(***************************************************************************)
ErrorKinds == {"Exception", "KeyboardInterrupt", "SystemExit"}
NoFault == [at |-> "none", kind |-> "none"]
FaultSteps ==
    {"clock", "rate", "format", "enrich", "connect", "deliver", "quit"}
Faults ==
    {NoFault}
    \cup [at : FaultSteps, kind : {"Exception", "KeyboardInterrupt"}]
    \cup [at : {"format"}, kind : ErrorKinds]
EmitFaults ==
    {NoFault} \cup [at : {"format"}, kind : {"Exception"}]

NestedInput(fault, delta, tight_from, stderr) ==
    [fault |-> fault, delta |-> delta, tight_from |-> tight_from,
     stderr |-> stderr]
Quiet == NestedInput(NoFault, 0, MaxDepth + 1, "open")

NewFrame(record, req, sess, fault, delta, nested, depth) ==
    [pc |-> "now", depth |-> depth,
     record |-> record, request |-> req, session |-> sess,
     fault |-> fault,
     delta |-> delta, nested |-> nested,
     now |-> 0, before |-> <<>>, new_rate_limiter |-> <<>>,
     overwritten |-> <<>>, read_clock |-> FALSE, decided |-> FALSE,
     recent_sends |-> 0, send_email |-> FALSE, appended |-> FALSE,
     msg |-> <<>>, subject |-> <<>>, dispatched |-> FALSE, mail |-> NoMail,
     recipient_list |-> <<>>, mail_subject |-> <<>>, sent |-> NoMail,
     request_fails |-> FALSE, session_fails |-> FALSE,
     logged |-> <<>>, pending |-> <<>>, stop |-> "none", error |-> "none",
     raised |-> "none", handle_errors |-> 0, after |-> <<>>]

\* one invocation of init(args), past its guard (lines 76-77), when cfg is
\* the configuration it finds: its arguments, the statement of InitSteps
\* it is at, and what it raises.  First, init() without lines 76-77.
InitFrame_unguarded(args, cfg) ==
    [pc |-> "statement", args |-> args, step |-> 1, raised |-> "none"]

InitFrame(args, cfg) ==
    IF cfg._configured
    THEN [pc |-> "init_return", args |-> args, step |-> 0,
          raised |-> "Exception"]
    ELSE [pc |-> "statement", args |-> args, step |-> 1, raised |-> "none"]

\* an exception of the given kind raised at a step inside the try of
\* line 277: control goes to the except clauses
raise(f, at, kind) == [f EXCEPT !.pc = "except", !.stop = at, !.error = kind]

\* The invocation has little room left on the interpreter's stack: it runs
\* at the depth from which the environment has the stack nearly exhausted.
\* How many frames a call needs is the interpreter's and the libraries'
\* affair: a call made there goes through, or it raises RecursionError.
Tight(f) == f.depth >= f.nested.tight_from

\* The invocation is as deep as the model follows the recursion: the
\* invocations that its logging calls enter exhaust the stack, and
\* RecursionError comes back from the call.
AtLimit(f) == f.depth >= MaxDepth

\* the invocation with RecursionError raised by the call it makes at the
\* given step, where that can be
Exhausted(f, at) ==
    IF Tight(f) THEN {raise(f, at, "RecursionError")} ELSE {}

\* self.handleError(record) (line 316), logging.Handler.handleError: it
\* writes the traceback to sys.stderr and catches OSError only.  What it
\* can raise out of emit(), whatever exception it was called for: the
\* ValueError of a write to a closed sys.stderr, and RecursionError where
\* the stack is nearly exhausted; "none" when it returns.  Where the
\* invocations entered from this one have just exhausted the stack and it
\* caught their RecursionError, handleError has no room either.
HandleErrorRaises(f) ==
    LET spent == AtLimit(f) /\ f.error = "RecursionError"
    IN  (IF spent /\ ~Tight(f) THEN {}
         ELSE IF f.nested.stderr = "closed" THEN {"ValueError"}
         ELSE {"none"})
        \cup (IF spent \/ Tight(f) THEN {"RecursionError"} ELSE {})

\* the logging calls of emit() and of the send_mail it calls: the level of
\* each (lines 282, 158, 160, 175, 310, 311)
LogPcs == {"debug", "mail_debug", "dump", "override", "warn", "body"}
LogLevelAt(pc) == IF pc \in {"debug", "mail_debug"} THEN DEBUG ELSE INFO

\* whether the call is made at all: line 159 tests _dump_email_body (the
\* override call of line 175 is reached only past the test of line 172)
LogWanted(pc, cfg) ==
    IF pc = "dump" THEN TruthyBool(cfg._dump_email_body) ELSE TRUE

\* the statement that follows the call
AfterLog(pc) ==
    CASE pc = "debug" -> "assign"
      [] pc = "mail_debug" -> "dump"
      [] pc = "dump" -> "smtp"
      [] pc = "override" -> "sendmail"
      [] pc = "warn" -> "body"
      [] OTHER -> "return"

\* the record the call makes: none of the texts begins with a tag
LogRecordAt(pc) ==
    CASE pc = "debug" -> StrRecord(<<"Rate limiter %s -> %s">>)
      [] pc = "mail_debug" -> StrRecord(<<"Sending mail">>)
      [] pc = "override" -> StrRecord(<<"Using email override">>)
      [] pc = "warn" -> StrRecord(<<WarningText>>)
      [] OTHER -> StrRecord(<<"message body">>)

\* ', '.join(recipient_list)
RECURSIVE Join(_)
Join(l) ==
    IF Len(l) <= 1 THEN l ELSE <<Head(l), ", ">> \o Join(Tail(l))

\* a line of the local log: the source line of the call, the text, the
\* numbers formatted into it, and the message when the line is a message
LogLine(line, text, numbers, body) ==
    [line |-> line, text |-> text, numbers |-> numbers, body |-> body]

\* the line that each call writes (lines 282, 158, 160, 175, 310, 311)
LogLineAt(f) ==
    CASE f.pc = "debug" ->
            LogLine(282, <<"Rate limiter %s -> %s">>,
                    <<Len(f.before), Len(f.new_rate_limiter)>>, <<>>)
      [] f.pc = "mail_debug" ->
            LogLine(158, <<"Sending ", "plain", " mail to ">>
                            \o Join(f.recipient_list) \o <<": ">>
                            \o f.mail_subject, <<>>, <<>>)
      [] f.pc = "dump" -> LogLine(160, <<>>, <<>>, f.mail.body)
      [] f.pc = "override" ->
            LogLine(175, <<"Using email override: ">>
                            \o Join(f.recipient_list), <<>>, <<>>)
      [] f.pc = "warn" -> LogLine(310, <<WarningText>>, <<>>, <<>>)
      [] OTHER -> LogLine(311, <<>>, <<>>, f.msg)

\* send_mail lines 173-174: the subject and the recipients under the
\* override
override_subject(recipient_list, subject) ==
    <<"[to ">> \o Join(recipient_list) \o <<"] ">> \o subject

Deltas == {0, Window - 1, Window}
TaggedRecord == StrRecord(<<TagPrefix, "(", "DB timeout", ")", "details">>)
Records == {StrRecord(<<"disk", "full">>), TaggedRecord, ObjRecord}
LoginRequest == Request([k \in {"password"} |-> <<"s1">>])
UserSession == Session(<<SessionValue("str", "bob")>>)
EmitRequests == {NoRequest, LoginRequest}
EmitSessions == {NoSession, UserSession}

\* the calls the application's threads make
CallInput(record, req, sess, fault, delta, nested, depth) ==
    [record |-> record, request |-> req, session |-> sess, fault |-> fault,
     delta |-> delta, nested |-> nested, depth |-> depth]
EmitInputs ==
    {CallInput(TaggedRecord, LoginRequest, UserSession, NoFault, d, Quiet, 1) :
        d \in Deltas}
    \cup {CallInput(TaggedRecord, LoginRequest, UserSession, f, 0, Quiet, 1) :
            f \in EmitFaults}
    \cup {CallInput(TaggedRecord, LoginRequest, UserSession, NoFault, d,
                    NestedInput(NoFault, Window, MaxDepth + 1, "open"), 1) :
            d \in Deltas}
    \cup {CallInput(TaggedRecord, LoginRequest, UserSession, NoFault, 0,
                    NestedInput(NoFault, 0, MaxDepth, "open"), d) :
            d \in {MaxDepth}}
StackInputs ==
    {CallInput(TaggedRecord, LoginRequest, UserSession, f, 0,
               NestedInput(NoFault, 0, k, "open"), d) :
        f \in {NoFault, [at |-> "format", kind |-> "Exception"]},
        k \in {MaxDepth - 1}, d \in {MaxDepth - 1, MaxDepth}}
StderrInputs ==
    {CallInput(TaggedRecord, q, UserSession, f, 0,
               NestedInput(NoFault, 0, MaxDepth + 1, "closed"), 1) :
        q \in EmitRequests,
        f \in {NoFault, [at |-> "format", kind |-> "Exception"]}}
FaultInputs ==
    {CallInput(r, LoginRequest, UserSession, NoFault, 0, Quiet, 1) :
        r \in Records}
    \cup {CallInput(TaggedRecord, q, s, NoFault, 0, Quiet, 1) :
            q \in EmitRequests, s \in EmitSessions}
    \cup {CallInput(TaggedRecord, LoginRequest, UserSession, f, 0, Quiet, 1) :
            f \in Faults}
    \cup {CallInput(TaggedRecord, LoginRequest, UserSession, NoFault, 0,
                    NestedInput(f, 0, MaxDepth + 1, "open"), 1) :
            f \in {[at |-> "format", kind |-> "KeyboardInterrupt"],
                    [at |-> "deliver", kind |-> "Exception"]}}
    \cup StackInputs
    \cup StderrInputs
ThreadInputs ==
    {CallInput(TaggedRecord, NoRequest, NoSession, NoFault, d, Quiet, 1) :
        d \in {0, Window}}

(***************************************************************************)
(* The inputs of the address round trip.                                   *)
(***************************************************************************)
AddrAlphabet == {"a", "@", ".", Newline}
NameAlphabet == {"b", " ", ",", "<", Newline}
\* the addresses of up to MaxAddrLen characters, and each of them followed
\* by a newline
Addresses ==
    SeqUpTo(AddrAlphabet, MaxAddrLen)
    \cup {a \o <<Newline>> : a \in SeqUpTo(AddrAlphabet, MaxAddrLen)}
Names == {None} \cup {Some(n) : n \in SeqUpTo(NameAlphabet, MaxNameLen)}
(***************************************************************************)
(* The resting values of each group of variables, for the specifications   *)
(* that leave the group alone.                                             *)
(***************************************************************************)
NotParsed == [raised |-> "unset", address |-> <<>>, name |-> None]

AddrIdle ==
    /\ email_address = <<>>
    /\ name = None
    /\ formatted_address = <<>>
    /\ parsed = NotParsed
    /\ apc = "idle"

\* the module as imported: init() not called
CfgIdle ==
    /\ config = Unconfigured
    /\ init_result = "unset"
    /\ init_calls = 0
    /\ init_ok = 0
    /\ first_args = NoArgs
    /\ overlapped = FALSE

\* init_error_emails not called, no web request in flight
DetIdle ==
    /\ obscured_fields = NoFields
    /\ request = NoRequest
    /\ session = NoSession
    /\ details = <<>>
    /\ dpc = "start"

NoEmit ==
    [NewFrame(StrRecord(<<>>), NoRequest, NoSession, NoFault, 0, Quiet, 0)
        EXCEPT !.pc = "unset", !.stop = "unset"]

NoLock == [owner |-> 0, count |-> 0]

\* no LfsSmtpHandler created
HdlIdle ==
    /\ attached = FALSE
    /\ max_sends_per_minute = 0
    /\ rate_limiter = <<>>
    /\ clock = 0
    /\ level = NOTSET
    /\ local_first = TRUE
    /\ permitted_at = <<>>
    /\ n_emits = 0
    /\ n_dispatched = 0
    /\ n_aborted = 0
    /\ last = NoEmit

Threads == 1..NThreads

ThrIdle ==
    /\ lock = NoLock
    /\ istack = [t \in Threads |-> <<>>]
    /\ stack = [t \in Threads |-> <<>>]

(***************************************************************************)
(* The address round trip: format_address, then parse_address.             *)
(***************************************************************************)
AddrInit ==
    /\ CfgIdle
    /\ DetIdle
    /\ HdlIdle
    /\ log_level = WARNING
    /\ ThrIdle
    /\ email_address \in Addresses
    /\ name \in Names
    /\ formatted_address = <<>>
    /\ parsed = NotParsed
    /\ apc = "start"

FormatAddress ==
    /\ apc = "start"
    /\ formatted_address' = format_address(email_address, name)
    /\ apc' = "formatted"
    /\ UNCHANGED <<email_address, name, parsed, cfgVars, detVars, hdlVars,
                   histVars, thrVars>>

ParseAddress ==
    /\ apc = "formatted"
    /\ parsed' = parse_address(formatted_address)
    /\ apc' = "parsed"
    /\ UNCHANGED <<email_address, name, formatted_address, cfgVars,
                   detVars, hdlVars, histVars, thrVars>>

AddrNext == FormatAddress \/ ParseAddress

AddrSpec == AddrInit /\ [][AddrNext]_vars

(***************************************************************************)
(* The threads of the application.  Each has the stack of the invocations  *)
(* of init() it is in and the stack of the invocations of emit() it is in, *)
(* innermost last; init() is not entered from emit(), so the latter are    *)
(* inside the former.  The logging                                         *)
(* framework calls the handler through logging.Handler.handle(), which     *)
(* LfsSmtpHandler inherits (line 187) with the lock its __init__ creates   *)
(* (line 207): handle() acquires the lock, calls emit() and releases the   *)
(* lock.  The lock is re-entrant: the thread that holds it acquires it     *)
(* again, so a record that emit() itself logs and that is passed to the    *)
(* handler enters emit() a second time, inside the first.                  *)
(***************************************************************************)
Top(t) == stack[t][Len(stack[t])]
SetTop(t, f) == [stack EXCEPT ![t] = [@ EXCEPT ![Len(@)] = f]]
At(t, p) == stack[t] # <<>> /\ Top(t).pc = p

\* the stack with its innermost invocation replaced by f and a new
\* invocation g entered from it
Enter(t, f, g) ==
    [stack EXCEPT ![t] = Append(SubSeq(@, 1, Len(@) - 1) \o <<f>>, g)]

\* the same for init(): thread t is in init() and not in an emit() inside it
InitTop(t) == istack[t][Len(istack[t])]
SetInitTop(t, f) == [istack EXCEPT ![t] = [@ EXCEPT ![Len(@)] = f]]
InInit(t, p) == stack[t] = <<>> /\ istack[t] # <<>> /\ InitTop(t).pc = p

\* handle(): self.acquire() goes through when the lock is free or held by
\* the calling thread
can_acquire(t) == lock.owner \in {0, t}

(***************************************************************************)
(* The set-up of the error emails: init_error_emails, or the application   *)
(* creating an LfsSmtpHandler itself, giving it a level or leaving it at   *)
(* NOTSET, and adding it to a logger above the module's.  The model has    *)
(* one handler: when there is one, no second is made.  The application     *)
(* has a handler of its own that writes the local log; it adds it before   *)
(* the LfsSmtpHandler or after it (orders), and the logging framework      *)
(* calls the handlers in that order.  The log.info calls                   *)
(* of init_error_emails (lines 326, 330, 333) come before addHandler and   *)
(* do not reach the handler it creates.                                    *)
(***************************************************************************)
InitErrorEmails(t, flags, choices, orders) ==
    /\ stack[t] = <<>> /\ istack[t] = <<>>
    /\ dpc = "start"
    /\ \E fl \in flags, obscured \in choices :
         \E r \in {init_error_emails(fl[1], fl[2], "errors@x",
                                     OneAddress("ops@x"), "Error",
                                     obscured)} :
            /\ r.attach => ~attached
            /\ obscured_fields' = r.obscured_fields
            /\ attached' = (attached \/ r.attach)
            /\ level' = IF r.attach THEN r.level ELSE level
            /\ max_sends_per_minute' =
                  IF r.attach THEN r.handler.max_sends_per_minute
                  ELSE max_sends_per_minute
            /\ rate_limiter' = IF r.attach THEN r.handler.rate_limiter
                               ELSE rate_limiter
            /\ \E o \in orders :
                  local_first' = IF r.attach THEN o ELSE local_first
    /\ dpc' = "setup"
    /\ UNCHANGED <<request, session, details, clock, log_level, addrVars,
                   cfgVars, histVars, thrVars>>

\* LfsSmtpHandler(fromaddr, toaddrs, subject, max_sends_per_minute=m),
\* setLevel(l) or none, addHandler
AttachHandler(t, levels, limits, orders) ==
    /\ stack[t] = <<>> /\ istack[t] = <<>>
    /\ ~attached
    /\ \E l \in levels, m \in limits, o \in orders :
         /\ level' = l
         /\ local_first' = o
         /\ max_sends_per_minute' = m
         /\ rate_limiter' =
               LfsSmtpHandler("errors@x", OneAddress("ops@x"), "Error",
                              m).rate_limiter
    /\ attached' = TRUE
    /\ UNCHANGED <<clock, log_level, addrVars, cfgVars, detVars, histVars,
                   thrVars>>

(***************************************************************************)
(* init(args), a statement at a time.                                      *)
(***************************************************************************)
\* the application calls init(args): lines 76-77, the test of _configured
CallInit(t, max_calls, choices) ==
    /\ stack[t] = <<>> /\ istack[t] = <<>>
    /\ init_calls < max_calls
    /\ \E args \in choices :
         /\ istack' = [istack EXCEPT ![t] = <<InitFrame(args, config)>>]
         /\ first_args' = IF init_calls = 0 THEN args ELSE first_args
    /\ init_calls' = init_calls + 1
    /\ overlapped' = (overlapped \/ \E u \in Threads : istack[u] # <<>>)
    /\ UNCHANGED <<config, init_result, init_ok, lock, stack, addrVars,
                   detVars, hdlVars, histVars>>

\* init() past the statement it is at
InitAdvance(f) ==
    IF f.step = Len(InitSteps) THEN [f EXCEPT !.pc = "init_return"]
    ELSE [f EXCEPT !.step = @ + 1]

\* lines 79-83, 87-94: one assignment to a global
InitAssign(t) ==
    /\ InInit(t, "statement")
    /\ InitSteps[InitTop(t).step] # "log"
    /\ LET f == InitTop(t)
           g == InitSteps[f.step]
       IN  /\ config' = [config EXCEPT ![g] = Configured(f.args)[g]]
           /\ istack' = SetInitTop(t, InitAdvance(f))
    /\ UNCHANGED <<init_result, init_calls, init_ok, first_args, overlapped,
                   lock, stack, addrVars, detVars, hdlVars, histVars>>

\* line 85: log.info('LFS Mailer using ...').  When an LfsSmtpHandler is
\* attached and the record is passed to it, handle() acquires the lock and
\* emit() runs on the record before the call returns.
InitLog(t) ==
    /\ InInit(t, "statement")
    /\ InitSteps[InitTop(t).step] = "log"
    /\ istack' = SetInitTop(t, InitAdvance(InitTop(t)))
    /\ IF attached /\ reaches(INFO, log_level, level)
       THEN /\ can_acquire(t)
            /\ stack' = [stack EXCEPT
                  ![t] = <<NewFrame(StrRecord(<<"LFS Mailer using">>),
                                    NoRequest, NoSession, NoFault, 0,
                                    Quiet, 1)>>]
            /\ lock' = [owner |-> t, count |-> lock.count + 1]
       ELSE UNCHANGED <<stack, lock>>
    /\ UNCHANGED <<addrVars, cfgVars, detVars, hdlVars, histVars>>

\* line 85, when the logger passes the record to a handler of the
\* application's that calls init() itself (choices: the arguments it may
\* give): that init() runs before the logging call returns
InitReenter(t, choices) ==
    /\ InInit(t, "statement")
    /\ InitSteps[InitTop(t).step] = "log"
    /\ INFO >= log_level
    /\ init_calls < MaxInitCalls
    /\ \E args \in choices :
          istack' = [istack EXCEPT
             ![t] = Append(SubSeq(@, 1, Len(@) - 1)
                              \o <<InitAdvance(InitTop(t))>>,
                           InitFrame(args, config))]
    /\ init_calls' = init_calls + 1
    /\ overlapped' = TRUE
    /\ UNCHANGED <<config, init_result, init_ok, first_args, lock, stack,
                   addrVars, detVars, hdlVars, histVars>>

\* init() returns or raises; what it raises inside the logging call of an
\* enclosing init(), that one raises
InitReturn(t) ==
    /\ InInit(t, "init_return")
    /\ LET f == InitTop(t)
           rest == SubSeq(istack[t], 1, Len(istack[t]) - 1)
       IN  /\ init_result' = f.raised
           /\ init_ok' = init_ok + (IF f.raised = "none" THEN 1 ELSE 0)
           /\ istack' = [istack EXCEPT
                 ![t] = IF rest # <<>> /\ f.raised # "none"
                        THEN [rest EXCEPT
                                ![Len(rest)] =
                                    [@ EXCEPT !.raised = f.raised,
                                              !.pc = "init_return"]]
                        ELSE rest]
    /\ UNCHANGED <<config, init_calls, first_args, overlapped, lock, stack,
                   addrVars, detVars, hdlVars, histVars>>

\* the statements of the init() that thread t is in
InitStep(t) ==
    \/ InitAssign(t)
    \/ InitLog(t)
    \/ InitReturn(t)

(***************************************************************************)
(* The configuration: init() called again and again, by several threads    *)
(* and from a logging handler of the application.                          *)
(***************************************************************************)
CfgArgs == {PlainArgs, ServerArgs}

CfgInit ==
    /\ AddrIdle
    /\ CfgIdle
    /\ DetIdle
    /\ HdlIdle
    /\ log_level = INFO
    /\ ThrIdle

CfgNext ==
    \E t \in Threads :
        \/ CallInit(t, MaxInitCalls, CfgArgs)
        \/ InitStep(t)
        \/ InitReenter(t, CfgArgs)

CfgSpec == CfgInit /\ [][CfgNext]_vars

(***************************************************************************)
(* The enrichment: init_error_emails (or not), then add_details.  The     *)
(* application asks for no error emails, or for both kinds.               *)
(***************************************************************************)
SetupFlags == {<<FALSE, FALSE>>, <<TRUE, TRUE>>}

DetInit ==
    /\ AddrIdle
    /\ CfgIdle
    /\ HdlIdle
    /\ log_level = WARNING
    /\ ThrIdle
    /\ obscured_fields = NoFields
    /\ request \in Requests
    /\ session \in Sessions
    /\ details = <<>>
    /\ dpc = "start"

AddDetails ==
    /\ dpc \in {"start", "setup"}
    /\ details' = add_details(BaseMessage, request, session, obscured_fields)
    /\ dpc' = "done"
    /\ UNCHANGED <<obscured_fields, request, session, addrVars, cfgVars,
                   hdlVars, histVars, thrVars>>

DetNext ==
    InitErrorEmails(1, SetupFlags, ObscuredChoices, {TRUE}) \/ AddDetails
DetSpec == DetInit /\ [][DetNext]_vars

(***************************************************************************)
(* emit(record), a statement at a time.                                    *)
(***************************************************************************)
\* a thread of the application logs an error that is passed to the handler:
\* handle() acquires the lock and calls emit(record)
Call(t, max_calls, inputs) ==
    /\ stack[t] = <<>> /\ istack[t] = <<>>
    /\ attached
    /\ ERROR >= level
    /\ n_emits < max_calls
    /\ can_acquire(t)
    /\ \E in \in inputs :
         stack' = [stack EXCEPT
                     ![t] = <<NewFrame(in.record, in.request, in.session,
                                       in.fault, in.delta, in.nested,
                                       in.depth)>>]
    /\ lock' = [owner |-> t, count |-> lock.count + 1]
    /\ n_emits' = n_emits + 1
    /\ UNCHANGED <<istack, hdlVars, permitted_at, n_dispatched, n_aborted,
                   last, addrVars, cfgVars, detVars>>

\* line 279: now = timetool.unix_time()
ReadClock(t) ==
    /\ At(t, "now")
    /\ LET f == Top(t) IN
       \/ /\ f.fault.at = "clock"
          /\ stack' = SetTop(t, raise(f, "clock", f.fault.kind))
          /\ clock' = clock
       \/ /\ \E g \in Exhausted(f, "clock") : stack' = SetTop(t, g)
          /\ clock' = clock
       \/ /\ f.fault.at # "clock"
          /\ stack' = SetTop(t, [f EXCEPT !.now = clock + f.delta,
                                          !.read_clock = TRUE,
                                          !.pc = "filter"])
          /\ clock' = clock + f.delta
    /\ UNCHANGED <<lock, istack, attached, max_sends_per_minute, rate_limiter,
                   level, log_level, local_first, histVars, addrVars,
                   cfgVars, detVars>>

\* lines 280-281: new_rate_limiter = [x for x in self.rate_limiter if ...]
Filter(t) ==
    /\ At(t, "filter")
    /\ stack' = SetTop(t, [Top(t) EXCEPT
                             !.before = rate_limiter,
                             !.new_rate_limiter =
                                 purge(rate_limiter, Top(t).now),
                             !.pc = "debug"])
    /\ UNCHANGED <<lock, istack, hdlVars, histVars, addrVars, cfgVars, detVars>>

\* log.debug / log.info (lines 282, 158, 160, 175, 310, 311).  The record
\* at or above the logger's level goes to the handlers in their order: the
\* application's handler writes it to the local log, and when the record
\* is passed to the LfsSmtpHandler, handle() acquires the lock again and
\* emit() runs on that record, with the web context of the same thread,
\* before the call returns.  With the LfsSmtpHandler first the line is
\* written when that emit() has returned (pending), and is not when it
\* raises.  Where the stack is nearly exhausted the call may raise
\* RecursionError, passed on or not, before the line was written or after;
\* at depth MaxDepth the emit() entered is not followed and RecursionError
\* comes back from it.
Log(t) ==
    /\ stack[t] # <<>>
    /\ Top(t).pc \in LogPcs
    /\ LET f == Top(t)
           passed == reaches(LogLevelAt(f.pc), log_level, level)
           line == IF LogLevelAt(f.pc) >= log_level
                   THEN <<LogLineAt(f)>> ELSE <<>>
           w == [f EXCEPT !.logged = @ \o line]
       IN  IF ~LogWanted(f.pc, config)
           THEN stack' = SetTop(t, [f EXCEPT !.pc = AfterLog(f.pc)])
                /\ lock' = lock
           ELSE \/ /\ \E h \in (IF passed /\ ~local_first THEN {f}
                                 ELSE {f, w}) :
                         \E g \in Exhausted(h, "log") : stack' = SetTop(t, g)
                   /\ lock' = lock
                \/ /\ passed
                   /\ AtLimit(f)
                   /\ \E h \in (IF local_first THEN {f, w} ELSE {f}) :
                         stack' = SetTop(t, raise(h, "log", "RecursionError"))
                   /\ lock' = lock
                \/ /\ ~passed
                   /\ stack' = SetTop(t, [w EXCEPT !.pc = AfterLog(f.pc)])
                   /\ lock' = lock
                \/ /\ passed
                   /\ ~AtLimit(f)
                   /\ can_acquire(t)
                   /\ stack' =
                         Enter(t,
                               IF local_first
                               THEN [w EXCEPT !.pc = AfterLog(f.pc)]
                               ELSE [f EXCEPT !.pc = AfterLog(f.pc),
                                              !.pending = line],
                               NewFrame(LogRecordAt(f.pc), f.request,
                                        f.session, f.nested.fault,
                                        f.nested.delta, f.nested,
                                        f.depth + 1))
                   /\ lock' = [lock EXCEPT !.count = @ + 1]
    /\ UNCHANGED <<istack, hdlVars, histVars, addrVars, cfgVars, detVars>>

\* line 283: self.rate_limiter = new_rate_limiter
Assign(t) ==
    /\ At(t, "assign")
    /\ rate_limiter' = Top(t).new_rate_limiter
    /\ stack' = SetTop(t, [Top(t) EXCEPT !.overwritten = rate_limiter,
                                         !.pc = "count"])
    /\ UNCHANGED <<lock, istack, attached, max_sends_per_minute, clock, level,
                   log_level, local_first, histVars, addrVars, cfgVars,
                   detVars>>

\* lines 287-288: recent_sends, send_email
Count(t) ==
    /\ At(t, "count")
    /\ LET f == Top(t) IN
       stack' = SetTop(t,
          IF f.fault.at = "rate" THEN raise(f, "rate", f.fault.kind)
          ELSE [f EXCEPT !.recent_sends = Len(rate_limiter),
                         !.send_email =
                             send_allowed(Len(rate_limiter),
                                          max_sends_per_minute),
                         !.decided = TRUE,
                         !.pc = "append"])
    /\ UNCHANGED <<lock, istack, hdlVars, histVars, addrVars, cfgVars, detVars>>

\* lines 289-290: if send_email: self.rate_limiter.append(now)
AppendNow(t) ==
    /\ At(t, "append")
    /\ LET f == Top(t) IN
       \E rl \in {append_if(rate_limiter, f.send_email, f.now)} :
          /\ rate_limiter' = rl
          /\ permitted_at' = IF rl # rate_limiter
                             THEN Append(permitted_at, f.now)
                             ELSE permitted_at
          /\ stack' = SetTop(t, [f EXCEPT !.appended = rl # rate_limiter,
                                          !.pc = "format"])
    /\ UNCHANGED <<lock, istack, attached, max_sends_per_minute, clock, level,
                   log_level, local_first, n_emits, n_dispatched, n_aborted,
                   last, addrVars, cfgVars, detVars>>

\* line 292: base_msg = self.format(record)
Format(t) ==
    /\ At(t, "format")
    /\ LET f == Top(t) IN
       \E g \in Exhausted(f, "format") \cup
                {IF f.fault.at = "format"
                 THEN raise(f, "format", f.fault.kind)
                 ELSE [f EXCEPT !.msg = format(f.record), !.pc = "enrich"]} :
          stack' = SetTop(t, g)
    /\ UNCHANGED <<lock, istack, hdlVars, histVars, addrVars, cfgVars, detVars>>

\* add_details in the invocation f when the request step fails for want
\* of stack (rf) and the session step does (sf): a step that raises is a
\* step without its context
Enriched(f, rf, sf, obscured) ==
    LET req == IF rf THEN NoRequest ELSE f.request
        sess == IF sf THEN NoSession ELSE f.session
        err == add_details_raises(f.msg, req, sess, obscured,
                                  f.nested.stderr)
    IN  IF err # "none"
        THEN raise([f EXCEPT !.request_fails = rf, !.session_fails = sf],
                   "enrich", err)
        ELSE [f EXCEPT !.msg = add_details(f.msg, req, sess, obscured),
                       !.request_fails = rf, !.session_fails = sf,
                       !.pc = "tag"]

\* line 293: msg = self.add_details(base_msg).  Where the stack is nearly
\* exhausted the call may raise RecursionError, and so may each of the two
\* steps inside it, whose except clause catches it.
Enrich(t) ==
    /\ At(t, "enrich")
    /\ LET f == Top(t)
           may == IF Tight(f) THEN BOOLEAN ELSE {FALSE}
       IN  \E g \in Exhausted(f, "enrich") \cup
                    (IF f.fault.at = "enrich"
                     THEN {raise(f, "enrich", f.fault.kind)}
                     ELSE {Enriched(f, rf, sf, obscured_fields) :
                             rf \in may, sf \in may}) :
              stack' = SetTop(t, g)
    /\ UNCHANGED <<lock, istack, hdlVars, histVars, addrVars, cfgVars, detVars>>

\* lines 297-302: the tag search on record.msg, and the subject
Tag(t) ==
    /\ At(t, "tag")
    /\ LET f == Top(t) IN
       stack' = SetTop(t,
          IF ~f.record.is_str THEN raise(f, "tag", "Exception")
          ELSE [f EXCEPT !.subject = subject_of(Handler.subject,
                                                f.record.msg),
                         !.pc = IF f.send_email THEN "send" ELSE "warn"])
    /\ UNCHANGED <<lock, istack, hdlVars, histVars, addrVars, cfgVars, detVars>>

\* line 308: send_text_mail(self.toaddrs, subject, msg, self.fromaddr),
\* and in send_mail lines 151-152: the test of _configured.  The call is
\* made (self.format at line 292 returned from deeper calls than the two
\* frames of send_text_mail and send_mail): RecursionError here is raised
\* inside send_mail
Send(t) ==
    /\ At(t, "send")
    /\ LET f == Top(t)
           g == [f EXCEPT !.dispatched = TRUE,
                          !.mail = [recipient_list |-> Handler.toaddrs,
                                    subject |-> f.subject,
                                    body |-> f.msg,
                                    from_address |-> Handler.fromaddr],
                          !.recipient_list = Handler.toaddrs,
                          !.mail_subject = f.subject]
       IN  \E h \in Exhausted(g, "send") \cup
                    {IF ~config._configured
                     THEN raise(g, "send", "Exception")
                     ELSE [g EXCEPT !.pc = "mail_debug"]} :
              stack' = SetTop(t, h)
    /\ n_dispatched' = n_dispatched + 1
    /\ UNCHANGED <<lock, istack, hdlVars, permitted_at, n_emits, n_aborted, last,
                   addrVars, cfgVars, detVars>>

\* send_mail lines 162-170: the connection to the SMTP server; then lines
\* 172-174: under the override, the subject and the recipients are replaced
Smtp(t) ==
    /\ At(t, "smtp")
    /\ LET f == Top(t) IN
       \E g \in Exhausted(f, "connect") \cup
          {IF f.fault.at = "connect" THEN raise(f, "connect", f.fault.kind)
           ELSE IF TruthyStr(config._email_to_override)
           THEN [f EXCEPT !.mail_subject =
                              override_subject(f.recipient_list, @),
                          !.recipient_list =
                              <<config._email_to_override.val>>,
                          !.pc = "override"]
           ELSE [f EXCEPT !.pc = "sendmail"]} :
          stack' = SetTop(t, g)
    /\ UNCHANGED <<lock, istack, hdlVars, histVars, addrVars, cfgVars, detVars>>

\* send_mail lines 177-184: the message is built and handed to the server
\* (s.sendmail, line 183), and the connection closed (s.quit, line 184)
Sendmail(t) ==
    /\ At(t, "sendmail")
    /\ LET f == Top(t)
           g == [f EXCEPT !.sent = [recipient_list |-> f.recipient_list,
                                   subject |-> f.mail_subject,
                                   body |-> f.mail.body,
                                   from_address |-> f.mail.from_address]]
       IN  \E h \in Exhausted(f, "deliver") \cup
                    {IF f.fault.at = "deliver"
                     THEN raise(f, "deliver", f.fault.kind)
                     ELSE IF f.fault.at = "quit"
                     THEN raise(g, "quit", f.fault.kind)
                     ELSE [g EXCEPT !.pc = "return"]} :
              stack' = SetTop(t, h)
    /\ UNCHANGED <<lock, istack, hdlVars, histVars, addrVars, cfgVars, detVars>>

\* lines 313-316: the except clauses
Except(t) ==
    /\ At(t, "except")
    /\ LET f == Top(t) IN
       \E r \in (IF handle(f.error).handle_errors = 1
                 THEN HandleErrorRaises(f)
                 ELSE {handle(f.error).raised}) :
          stack' = SetTop(t, [f EXCEPT
                     !.raised = r,
                     !.handle_errors = handle(f.error).handle_errors,
                     !.pc = "return"])
    /\ UNCHANGED <<lock, istack, hdlVars, histVars, addrVars, cfgVars, detVars>>

\* emit() returns or raises; handle() releases the lock.  What the
\* invocation raises, it raises inside the logging call of the invocation
\* that made it, if there is one: an emit() has it in its try, an init()
\* raises it.  When it returns, the handler that follows writes the line
\* of that logging call to the local log.
Return(t) ==
    /\ At(t, "return")
    /\ LET f == Top(t)
           rest == SubSeq(stack[t], 1, Len(stack[t]) - 1)
       IN  /\ last' = [f EXCEPT !.after = rate_limiter]
           /\ n_aborted' = n_aborted
                  + (IF f.appended /\ ~f.dispatched THEN 1 ELSE 0)
           /\ stack' = [stack EXCEPT
                 ![t] = IF rest = <<>> THEN rest
                        ELSE IF f.raised # "none"
                        THEN [rest EXCEPT
                                ![Len(rest)] =
                                    raise([@ EXCEPT !.pending = <<>>],
                                          "log", f.raised)]
                        ELSE [rest EXCEPT
                                ![Len(rest)] =
                                    [@ EXCEPT !.logged = @ \o rest[Len(rest)].pending,
                                              !.pending = <<>>]]]
           /\ istack' = IF rest = <<>> /\ istack[t] # <<>>
                            /\ f.raised # "none"
                         THEN SetInitTop(t, [InitTop(t) EXCEPT
                                               !.raised = f.raised,
                                               !.pc = "init_return"])
                         ELSE istack
    /\ lock' = IF lock.count = 1 THEN NoLock
               ELSE [lock EXCEPT !.count = @ - 1]
    /\ UNCHANGED <<hdlVars, permitted_at, n_emits, n_dispatched, addrVars,
                   cfgVars, detVars>>

\* the statements of the emit() that thread t is in
Step(t) ==
    \/ ReadClock(t)
    \/ Filter(t)
    \/ Log(t)
    \/ Assign(t)
    \/ Count(t)
    \/ AppendNow(t)
    \/ Format(t)
    \/ Enrich(t)
    \/ Tag(t)
    \/ Send(t)
    \/ Smtp(t)
    \/ Sendmail(t)
    \/ Except(t)
    \/ Return(t)

(***************************************************************************)
(* One thread logging again and again under a moving clock, formatting or  *)
(* enrichment failing.  The application has called init(PlainArgs) and     *)
(* init_error_emails(False, False, ...), which stores the obscured fields  *)
(* and creates no handler; it creates the handler itself, with a limit of  *)
(* its own.                                                                *)
(***************************************************************************)
EmitInit ==
    /\ AddrIdle
    /\ config = Configured(PlainArgs)
    /\ init_result = "none"
    /\ init_calls = 1
    /\ init_ok = 1
    /\ first_args = PlainArgs
    /\ overlapped = FALSE
    /\ obscured_fields =
          init_error_emails(FALSE, FALSE, "errors@x", OneAddress("ops@x"),
                            "Error", {"password"}).obscured_fields
    /\ request = NoRequest
    /\ session = NoSession
    /\ details = <<>>
    /\ dpc = "setup"
    /\ HdlIdle
    /\ log_level \in {DEBUG, INFO, WARNING}
    /\ ThrIdle

EmitLevels == {NOTSET, ERROR}

EmitNext ==
    \/ AttachHandler(1, EmitLevels, 1..MaxSends, {TRUE})
    \/ Call(1, MaxEmits, EmitInputs)
    \/ Step(1)

EmitSpec == EmitInit /\ [][EmitNext]_vars

(***************************************************************************)
(* One thread, for what emit() does when a step fails: every kind of       *)
(* record, of web context and of failure; init() called before the         *)
(* handler is there, after, or not at all.                                 *)
(***************************************************************************)
FaultInit ==
    /\ AddrIdle
    /\ CfgIdle
    /\ DetIdle
    /\ HdlIdle
    /\ log_level \in {DEBUG, INFO}
    /\ ThrIdle

FaultArgs == {PlainArgs, DumpArgs, EmptyOverrideArgs}
FaultFlags == {<<TRUE, FALSE>>, <<FALSE, TRUE>>}

FaultNext ==
    \/ InitErrorEmails(1, FaultFlags, {{"password"}}, {TRUE})
    \/ AttachHandler(1, EmitLevels, {MaxSends}, BOOLEAN)
    \/ CallInit(1, MaxCalls, FaultArgs)
    \/ InitStep(1)
    \/ Call(1, MaxCalls, FaultInputs)
    \/ Step(1)

FaultSpec == FaultInit /\ [][FaultNext]_vars

(***************************************************************************)
(* Several threads logging to the handler.                                 *)
(***************************************************************************)
ThreadInit == EmitInit

ThreadNext ==
    \E t \in Threads :
        \/ AttachHandler(t, EmitLevels, 1..MaxSends, {TRUE})
        \/ Call(t, MaxThreadEmits, ThreadInputs)
        \/ Step(t)

ThreadSpec == ThreadInit /\ [][ThreadNext]_vars

(***************************************************************************)
(* What the claims speak of, said without the model's operators.           *)
(***************************************************************************)
\* the entries of s newer than bound, in order
RECURSIVE Newer(_, _)
Newer(s, bound) ==
    IF s = <<>> THEN <<>>
    ELSE (IF Head(s) > bound THEN <<Head(s)>> ELSE <<>>)
         \o Newer(Tail(s), bound)

\* how many of the invocations that appended read the clock less than a
\* minute after the i-th of them did (the i-th included)
PermittedWithinWindowOf(i) ==
    Cardinality({j \in DOMAIN permitted_at :
                    /\ permitted_at[i] <= permitted_at[j]
                    /\ permitted_at[j] < permitted_at[i] + Window})

Labels(msg) == [i \in DOMAIN msg |-> msg[i].label]

\* the invocations in progress, and those that appended and have not
\* reached send_text_mail
Invocations == {v \in Threads \X (1..MaxDepth) : v[2] <= Len(stack[v[1]])}
Pending ==
    {v \in Invocations :
        stack[v[1]][v[2]].appended /\ ~stack[v[1]][v[2]].dispatched}

\* the last invocation that returned got past the tag search
PastTag ==
    \/ last.stop \in {"send", "connect", "deliver", "quit", "none"}
    \/ last.stop = "log" /\ last.decided

(***************************************************************************)
(* C1.  With the clock readings non-decreasing, among the emit() calls     *)
(* whose readings lie within one 60-second span (less than 60 seconds      *)
(* apart) at most max_sends_per_minute are permitted, that is append to    *)
(* rate_limiter and reach send_text_mail.                                  *)
(* It fails: a handler whose level lets through the DEBUG record of line   *)
(* 282 enters emit() again between the filter of line 281 and the          *)
(* assignment of line 283; the inner invocation appends and sends, the     *)
(* outer one overwrites the list with its filtered copy and finds room.    *)
(***************************************************************************)
C1_AtMostMaxPerWindow ==
    /\ \A i \in DOMAIN permitted_at :
          PermittedWithinWindowOf(i) <= max_sends_per_minute
    /\ last.dispatched => last.appended

(***************************************************************************)
(* C2.  With several threads logging to the handler, the purge + count +   *)
(* append of one invocation never interleaves with another's: at most one  *)
(* invocation is between its filter and its append, no appended timestamp  *)
(* less than a minute old is missing from rate_limiter, and at most        *)
(* max_sends_per_minute calls are permitted in a 60-second window.         *)
(* It fails, as C1 does: the lock keeps the threads apart, but the thread  *)
(* that holds it enters emit() again at line 282.                          *)
(***************************************************************************)
InSection ==
    {v \in Invocations :
        stack[v[1]][v[2]].pc \in {"debug", "assign", "count", "append"}}

Occurrences(s, v) == Cardinality({i \in DOMAIN s : s[i] = v})

C2_SerializedRateLimiter ==
    /\ Cardinality(InSection) <= 1
    /\ \A i \in DOMAIN permitted_at :
          permitted_at[i] > clock - Window =>
              Occurrences(rate_limiter, permitted_at[i])
                  = Occurrences(permitted_at, permitted_at[i])
    /\ \A i \in DOMAIN permitted_at :
          PermittedWithinWindowOf(i) <= max_sends_per_minute

(***************************************************************************)
(* C3.  When a step of emit() raises an ordinary exception, emit() raises  *)
(* nothing to its caller and calls handleError(record) exactly once; a     *)
(* KeyboardInterrupt or SystemExit propagates to the caller and            *)
(* handleError is not called; when no step raises, neither happens.        *)
(* It fails, by the fault of C1: where emit() enters itself through its    *)
(* logging calls until the interpreter raises RecursionError, the          *)
(* invocations nearest the limit catch it, call handleError, and           *)
(* handleError raises RecursionError out of emit().  So it does for the    *)
(* application that logs near the limit itself, whatever the exception it  *)
(* was called for, and on a closed sys.stderr handleError raises           *)
(* ValueError.                                                             *)
(***************************************************************************)
C3_ErrorsGoToHandleError ==
    /\ last.error \in Ordinary =>
          last.raised = "none" /\ last.handle_errors = 1
    /\ last.error \in {"KeyboardInterrupt", "SystemExit"} =>
          last.raised = last.error /\ last.handle_errors = 0
    /\ last.error = "none" =>
          last.raised = "none" /\ last.handle_errors = 0
    /\ last.stop \notin {"none", "unset"} => last.error # "none"
    /\ \A v \in Invocations :
          stack[v[1]][v[2]].pc # "return" =>
              /\ stack[v[1]][v[2]].raised = "none"
              /\ stack[v[1]][v[2]].handle_errors = 0

(***************************************************************************)
(* C5.  At the rate decision of an emit() that read the clock as now,      *)
(* exactly the entries t <= now - 60 of rate_limiter are removed before    *)
(* the count is taken and the others are kept, in order: an entry exactly  *)
(* 60 seconds old is not counted, and after the emit() every timestamp in  *)
(* rate_limiter is later than now - 60.                                    *)
(* It fails, by the fault of C1: the assignment of line 283 also removes   *)
(* the entries that invocations entered at line 282 appended.              *)
(***************************************************************************)
C5_PurgeBoundary ==
    last.decided =>
        /\ last.new_rate_limiter = Newer(last.overwritten, last.now - Window)
        /\ last.recent_sends =
              Cardinality({i \in DOMAIN last.overwritten :
                             last.overwritten[i] > last.now - Window})
        /\ \A i \in DOMAIN last.after :
              last.after[i] > last.now - Window

(***************************************************************************)
(* C6.  When emit() finds max_sends_per_minute or more entries less than   *)
(* a minute old, the record is suppressed: nothing is appended to          *)
(* rate_limiter (the purge is its only change), send_text_mail is not      *)
(* called, and the warning followed by the message body is written to the  *)
(* local log.                                                              *)
(* It fails, by the fault of C1: the assignment of line 283, the one write *)
(* of a suppressed invocation, also removes the entries that invocations   *)
(* entered at line 282 appended, none of them a minute old.  (The two      *)
(* lines are not written either when formatting, enrichment or the tag     *)
(* search raises, nor when the module's logger is not enabled for INFO.)   *)
(***************************************************************************)
FoundFull == last.decided /\ last.recent_sends >= max_sends_per_minute

\* what the invocation wrote at line 283 is the list it replaced less the
\* entries a minute old or older, and it appended nothing
PurgeOnly ==
    /\ last.new_rate_limiter = Newer(last.overwritten, last.now - Window)
    /\ ~last.appended

\* the warning and then the message are among the lines it wrote
WarningThenBody ==
    \E i \in 1..(Len(last.logged) - 1) :
        /\ last.logged[i] = LogLine(310, <<WarningText>>, <<>>, <<>>)
        /\ last.logged[i + 1] = LogLine(311, <<>>, <<>>, last.msg)

C6_SuppressedAlwaysLogged ==
    FoundFull =>
        /\ PurgeOnly
        /\ ~last.dispatched
        /\ last.mail = NoMail
        /\ last.msg # <<>>
        /\ WarningThenBody

(***************************************************************************)
(* C7.  The request step and the session step of add_details are           *)
(* best-effort, each on its own: whichever of them fail, add_details does  *)
(* not raise and returns a message that begins with the base message, has  *)
(* no section of a failing step and has the section of a succeeding step,  *)
(* and a permitted record goes to send_text_mail with that message as its  *)
(* body.                                                                   *)
(* It fails: the except clause of a failing step calls                     *)
(* traceback.print_exc() (lines 255, 267), and what that call raises       *)
(* leaves add_details: ValueError on a closed sys.stderr, RecursionError   *)
(* where the stack is nearly exhausted.  The record, permitted and         *)
(* counted, is not sent.                                                   *)
(***************************************************************************)
RequestStepFails ==
    \/ ~last.request.some
    \/ last.request_fails
    \/ DOMAIN last.request.form # {} /\ ~obscured_fields.some
SessionStepFails ==
    \/ ~last.session.some
    \/ last.session_fails
    \/ \E i \in DOMAIN last.session.items :
          last.session.items[i].kind \notin {"str", "datetime", "UUID"}

\* the last invocation that returned called add_details, and nothing was
\* made to escape from it by the environment
CalledAddDetails ==
    /\ last.fault.at # "enrich"
    /\ \/ last.stop \in {"enrich", "tag"}
       \/ PastTag

C7_EnrichmentBestEffort ==
    CalledAddDetails =>
        /\ last.stop # "enrich"
        /\ last.msg # <<>>
        /\ last.msg[1] = format(last.record)[1]
        /\ Labels(last.msg) =
              <<"Message">>
              \o (IF RequestStepFails THEN <<>> ELSE <<"Request">>)
              \o (IF SessionStepFails THEN <<>> ELSE <<"Session">>)
        /\ (last.send_email /\ last.stop # "tag") =>
              last.dispatched /\ last.mail.body = last.msg

(***************************************************************************)
(* C10.  rate_limiter is empty at construction, and an emit() appends a    *)
(* timestamp if and only if it calls send_text_mail, so that as many       *)
(* timestamps were appended as dispatches were made.                       *)
(* As stated it fails: the timestamp is appended before the record is      *)
(* formatted, and a call that raises after it never reaches the send.      *)
(***************************************************************************)
C10_AppendIffDispatch ==
    /\ n_emits = 0 => rate_limiter = <<>>
    /\ last.appended <=> last.dispatched
    /\ Len(permitted_at) = n_dispatched + Cardinality(Pending)

(***************************************************************************)
(* C10 as amended.  rate_limiter is empty at construction; an emit() that  *)
(* calls send_text_mail (once, with the to-addresses, the subject, the     *)
(* body and the from-address) has appended its timestamp, and an emit()    *)
(* that appended calls it unless formatting, enrichment or tag extraction  *)
(* raised first; so as many timestamps were appended as dispatches were    *)
(* made plus permitted calls raised before the send.                       *)
(***************************************************************************)
C10_AppendThenDispatchUnlessRaised ==
    /\ n_emits = 0 => rate_limiter = <<>>
    /\ last.dispatched => last.appended
    /\ (last.appended /\ last.stop \notin {"format", "enrich", "tag"})
          => last.dispatched
    /\ (last.appended /\ last.stop \in {"format", "enrich", "tag"})
          => ~last.dispatched
    /\ last.dispatched =>
          /\ last.mail.recipient_list = <<"ops@x">>
          /\ last.mail.subject =
                <<"Error">> \o (IF last.record = TaggedRecord
                                THEN <<" (", "DB timeout", ")">> ELSE <<>>)
          /\ last.mail.body = last.msg
          /\ last.mail.from_address = "errors@x"
    /\ Len(permitted_at) = n_dispatched + n_aborted + Cardinality(Pending)

C10_Witness ==
    /\ Len(permitted_at) = 2
    /\ n_dispatched = 1
    /\ n_aborted = 1
    /\ last.appended /\ last.dispatched
    /\ last.error = "none"
    /\ last.record = TaggedRecord

(***************************************************************************)
(* C9.  parse_address(format_address(addr, name)) is (addr, name), and     *)
(* parse_address(format_address(addr)) is (addr, None), for every address  *)
(* addr that email_regex accepts and every display name.                   *)
(* As stated it fails: a name holding "," or "<" makes parse_address raise *)
(* ValueError, a name with leading or trailing whitespace comes back       *)
(* stripped, and an address that email_regex accepts with a newline at its *)
(* end ("$" matches before it) is not found again between "<" and ">".     *)
(***************************************************************************)
RoundTrips ==
    /\ parsed.raised = "none"
    /\ parsed.address = email_address
    /\ parsed.name = name

C9_RoundTripEveryName ==
    (apc = "parsed" /\ EmailMatch(email_address)) => RoundTrips

(***************************************************************************)
(* C9 as amended.  The round trip gives (addr, None) when no name is       *)
(* passed and email_regex accepts addr; it gives (addr, name) when addr    *)
(* is, from its first character to its last, a string of the email         *)
(* pattern and the name holds no "," and no "<" and has no leading or      *)
(* trailing whitespace.                                                    *)
(***************************************************************************)
PlainName(nm) ==
    \/ ~nm.some
    \/ /\ \A i \in 1..Len(nm.val) : nm.val[i] \notin {",", "<"}
       /\ nm.val = <<>> \/ (nm.val[1] \notin Whitespace
                             /\ nm.val[Len(nm.val)] \notin Whitespace)

C9_RoundTripPlainName ==
    /\ (apc = "parsed" /\ EmailMatch(email_address) /\ ~name.some)
          => RoundTrips
    /\ (apc = "parsed" /\ EmailPattern(email_address) /\ PlainName(name))
          => RoundTrips

C9_Witness ==
    /\ apc = "parsed"
    /\ EmailPattern(email_address)
    /\ name = Some(<<"b", " ", "b">>) \/ name = Some(<<"b", "b">>)
    /\ parsed.name = name
    /\ formatted_address # email_address

(***************************************************************************)
(* C4.  The mailer configuration is write-once: in any sequence of init()  *)
(* calls, each made when the one before has returned, the first succeeds   *)
(* and sets the configuration from its arguments; every later call raises  *)
(* and leaves every value as the first call set it.                        *)
(* (Calls that overlap, from two threads or from a logging handler that    *)
(* receives the record of line 85, are outside the claim: there the guard  *)
(* of line 76 lets both pass, line 94 not being reached yet.)              *)
(***************************************************************************)
NoCallRunning == \A t \in Threads : istack[t] = <<>>

C4_WriteOnce ==
    ~overlapped =>
        /\ init_calls = 0 => config = Unconfigured
        /\ init_ok <= 1
        /\ init_ok = 1 => config = Configured(first_args)
        /\ (NoCallRunning /\ init_calls >= 1) =>
              /\ init_ok = 1
              /\ init_calls >= 2 => init_result = "Exception"
        /\ \A t \in Threads : \A i \in 1..Len(istack[t]) :
              istack[t][i].raised = "Exception" => init_ok = 1

C4_Witness ==
    /\ ~overlapped
    /\ NoCallRunning
    /\ init_calls = 2
    /\ init_ok = 1
    /\ init_result = "Exception"
    /\ first_args = PlainArgs
    /\ config = Configured(PlainArgs)

(***************************************************************************)
(* C8.  Every submitted field whose lowercased name is in the obscured-    *)
(* field set given to init_error_emails shows as the mask "******" in the  *)
(* request section and its submitted value never shows: two requests that  *)
(* differ only in the values of obscured fields give the same message.     *)
(***************************************************************************)
ObscuredKeys == {k \in DOMAIN request.form : Lower(k) \in obscured_fields.val}

\* the requests that differ from `request` in obscured values only
Variants ==
    {[request EXCEPT !.form =
        [k \in DOMAIN request.form |->
            IF k \in ObscuredKeys THEN g[k] ELSE request.form[k]]] :
     g \in [ObscuredKeys -> ValueLists]}

Tokens(msg) == UNION {{msg[i].content[j] : j \in 1..Len(msg[i].content)} :
                      i \in 1..Len(msg)}

RequestBlocks(msg) == {i \in 1..Len(msg) : msg[i].label = "Request"}

\* the tokens rendered for field k in the request block
FieldShown(msg, k) ==
    \E i \in RequestBlocks(msg) : \E j \in 1..(Len(msg[i].content) - 6) :
        LET c == msg[i].content IN
        /\ SubSeq(c, j, j + 3) = <<"'", k, "'", ":">>
        /\ SubSeq(c, j + 4, j + 6) = ReprStr(Mask)

C8_ObscuredFieldsMasked ==
    (dpc = "done" /\ obscured_fields.some /\ request.some) =>
        /\ \A k \in ObscuredKeys : FieldShown(details, k)
        /\ ObscuredKeys = DOMAIN request.form
               => Tokens(details) \cap Submitted = {}
        /\ \A r \in Variants :
               add_details(BaseMessage, r, session, obscured_fields) = details

C8_Witness ==
    /\ dpc = "done"
    /\ obscured_fields = Some({"password"})
    /\ DOMAIN request.form = {"Password", "password", "user"}
    /\ request.form["Password"] = <<"s1", "s2">>
    /\ request.form["user"] = <<"s2">>
    /\ RequestBlocks(details) # {}

====
